---- MODULE Spec2Model ----
(***************************************************************************)
(* BioCypher batch writer (biocypher/_write.py, BatchWriter) with the      *)
(* relational dialect (db_modules/postgresql/_writer.py,                   *)
(* PostgresBatchWriter).                                                   *)
(*                                                                         *)
(* One output directory, written by successively created writer instances. *)
(* A write call is modelled at the granularity of its input loop: one step *)
(* per entity pulled from the input, one step for the code that runs after *)
(* the input is depleted (remaining bins, schema record, header files).    *)
(***************************************************************************)
EXTENDS Integers, Sequences, FiniteSets, TLC

\* ---------------------------------------------------------------- bounds
MaxInput == 3        \* entities one write_nodes input sequence yields
MaxEdgeInput == 2    \* entities in one write_edges input sequence
MaxBatch == 3        \* largest batch_size a caller passes
MaxWork == 5         \* calls made plus entities taken, over the history

\* batch_size default of write_nodes / write_edges
DefaultBatchSize == 1000000

BatchSizes == 1..MaxBatch

\* ------------------------------------------------------- python dicts
\* A dict keeps its keys in insertion order: keys is that order, val the map.
EmptyDict == [keys |-> <<>>, val |-> [k \in {} |-> 0]]

Has(d, k) == k \in DOMAIN d.val

Put(d, k, v) ==
    [keys |-> IF k \in DOMAIN d.val THEN d.keys ELSE Append(d.keys, k),
     val  |-> [x \in (DOMAIN d.val) \cup {k} |-> IF x = k THEN v ELSE d.val[x]]]

Range(s) == {s[i] : i \in DOMAIN s}

SetMax(S) == CHOOSE m \in S : \A x \in S : x <= m

\* ------------------------------------------------------------ entities
\* A property value is one of three tokens: a string, an integer, None.
\* type(v).__name__ of a value that is not None
TypeName(v) == IF v = "7" THEN "int" ELSE "str"

NoProperties == [k \in {} |-> "none"]

NodeIds == {"", "n1", "n2", "n3"}

NodeLabels == {"protein", "gene"}

\* the properties of a node hold its id and preferred_id
NodeProps ==
    {[k \in {"id", "preferred_id"} |-> "abc"],
     [k \in {"name", "id", "preferred_id"} |-> IF k = "name" THEN "7" ELSE "abc"]}

Nodes == [id : NodeIds, label : {"protein"}, props : NodeProps]
             \cup [id : {"n1", "n2"}, label : {"gene"}, props : NodeProps]

EdgeLabels == {"binds", "activates"}

EdgeProps == {NoProperties, [k \in {"score"} |-> "7"]}

PlainEdges == [source : {"", "n1", "n2"}, target : {"n2"}, label : EdgeLabels,
               props : EdgeProps]

\* BioCypherRelAsNode: get_node, get_source_edge, get_target_edge
RelAsNodes ==
    {[node        |-> [id |-> "n3", label |-> "protein",
                       props |-> [k \in {"id", "preferred_id"} |-> "abc"]],
      source_edge |-> [source |-> "n3", target |-> "n1", label |-> "binds",
                       props |-> NoProperties],
      target_edge |-> [source |-> "n3", target |-> "n2", label |-> "binds",
                       props |-> NoProperties]]}

IsRelAsNode(e) == "node" \in DOMAIN e

EdgeEntities == PlainEdges \cup RelAsNodes

RECURSIVE SeqsUpTo(_, _)
SeqsUpTo(S, n) ==
    IF n = 0 THEN {<<>>}
    ELSE LET shorter == SeqsUpTo(S, n - 1)
         IN  shorter \cup {Append(s, x) : s \in {t \in shorter : Len(t) = n - 1}, x \in S}

EdgeInputs == SeqsUpTo(EdgeEntities, MaxEdgeInput)

\* ------------------------------------------- external collaborators
\* translator.name_sentence_to_pascal
Pascal(label) ==
    CASE label = "protein"   -> "Protein"
      [] label = "gene"      -> "Gene"
      [] label = "entity"    -> "Entity"
      [] label = "binds"     -> "Binds"
      [] label = "activates" -> "Activates"
      [] label = "activation" -> "Activation"

\* alphabetical position of the external names
NameRank(name) ==
    CASE name = "Activates" -> 1
      [] name = "Activation" -> 2
      [] name = "Binds"     -> 3
      [] name = "Entity"    -> 4
      [] name = "Gene"      -> 5
      [] name = "Protein"   -> 6

\* ontology_adapter.get_node_ancestry
Ancestry(label) ==
    IF label = "protein" THEN <<"protein", "entity", "protein">> ELSE <<>>

\* ontology_adapter.leaves at construction: the declared property schemas
InitialLeaves ==
    [l \in {"protein", "gene", "binds", "activation"} |->
        [properties   |-> CASE l = "gene"       -> [k \in {"name"} |-> "int"]
                            [] l = "activation" -> [k \in {"score"} |-> "int"]
                            [] OTHER            -> NoProperties,
         label_as_edge |-> IF l = "activation" THEN "activates" ELSE "none"]]

\* ------------------------------------------------------- configuration
ADelim == "|"
Quote == "'"

NumericTags == {"int", "long", "float", "double", "dbl", "bool", "boolean"}

\* d[k] = v on a property mapping
MapPut(m, k, v) == [x \in (DOMAIN m) \cup {k} |-> IF x = k THEN v ELSE m[x]]

\* ------------------------------------------------------ canonical label
\* a list left with its repetitions
DedupNone(s) == s

\* list(OrderedDict.fromkeys(all_labels))
RECURSIVE Dedup(_)
Dedup(s) ==
    IF s = <<>> THEN <<>>
    ELSE LET front == Dedup(SubSeq(s, 1, Len(s) - 1))
             last  == s[Len(s)]
         IN  IF last \in Range(front) THEN front ELSE Append(front, last)

RECURSIVE InsertSorted(_, _)
InsertSorted(s, x) ==
    IF s = <<>> THEN <<x>>
    ELSE IF NameRank(x) < NameRank(Head(s)) THEN <<x>> \o s
    ELSE <<Head(s)>> \o InsertSorted(Tail(s), x)

RECURSIVE SortNames(_)
SortNames(s) ==
    IF s = <<>> THEN <<>> ELSE InsertSorted(SortNames(Tail(s)), Head(s))

RECURSIVE Join(_, _)
Join(s, d) ==
    IF s = <<>> THEN ""
    ELSE IF Len(s) = 1 THEN s[1]
    ELSE s[1] \o d \o Join(Tail(s), d)

\* the label string of a type whose ancestry the ontology gives as all_labels
AllLabels(label, all_labels) ==
    IF all_labels # <<>>
    THEN Join(SortNames(Dedup([i \in DOMAIN all_labels |->
                                  Pascal(all_labels[i])])),
              ADelim)
    ELSE Pascal(label)

\* -------------------------------------------------- schema of a new bin
\* every property taken for a string
InferPropsAllStr(props) == [k \in DOMAIN props |-> "str"]

\* the type names of the values of the properties of the first entity
InferProps(props) ==
    [k \in DOMAIN props |-> IF props[k] # "none" THEN TypeName(props[k]) ELSE "none"]

StrictProps(d) ==
    MapPut(MapPut(MapPut(d, "source", "str"), "version", "str"), "licence", "str")

NodeReferenceProps(node, lv, strict) ==
    LET cprops == lv[node.label].properties
    IN  IF cprops # NoProperties
        THEN LET d == MapPut(MapPut(cprops, "id", "str"), "preferred_id", "str")
             IN  IF strict THEN StrictProps(d) ELSE d
        ELSE InferProps(node.props)

\* the leaf whose declared schema an edge label takes
EdgeLeaf(label, lv) ==
    IF label \in DOMAIN lv THEN label
    ELSE IF \E k \in DOMAIN lv : lv[k].label_as_edge = label
         THEN CHOOSE k \in DOMAIN lv : lv[k].label_as_edge = label
         ELSE "none"

\* d and the leaves after d was built: d is the declared mapping itself, so
\* the strict-mode keys are stored into the leaf
EdgeReferenceProps(e, lv, strict) ==
    LET leaf   == EdgeLeaf(e.label, lv)
        cprops == IF leaf = "none" THEN NoProperties ELSE lv[leaf].properties
    IN  IF cprops # NoProperties
        THEN LET d == IF strict THEN StrictProps(cprops) ELSE cprops
             IN  [d |-> d, leaves |-> [lv EXCEPT ![leaf].properties = d]]
        ELSE [d |-> InferProps(e.props), leaves |-> lv]

\* ------------------------------------------------------ partition files
\* a numbering that leaves one index out
WriteNextPartSkipping(label, lines, fs) ==
    LET name      == Pascal(label)
        parts     == {f.part : f \in {g \in fs : g.name = name}}
        next_part == IF parts # {} THEN SetMax(parts) + 2 ELSE 0
    IN  fs \cup {[name |-> name, part |-> next_part, lines |-> lines]}

\* a numbering that starts again at index 0
WriteNextPartOverwriting(label, lines, fs) ==
    LET name == Pascal(label)
    IN  {f \in fs : ~(f.name = name /\ f.part = 0)}
            \cup {[name |-> name, part |-> 0, lines |-> lines]}

\* a part file that holds the lines last to first
WriteNextPartReversed(label, lines, fs) ==
    LET name      == Pascal(label)
        parts     == {f.part : f \in {g \in fs : g.name = name}}
        next_part == IF parts # {} THEN SetMax(parts) + 1 ELSE 0
    IN  fs \cup {[name |-> name, part |-> next_part,
                  lines |-> [i \in 1..Len(lines) |-> lines[Len(lines) + 1 - i]]]}

\* a file of the output directory: <name>-part<part>.csv holding lines
WriteNextPart(label, lines, fs) ==
    LET name      == Pascal(label)
        parts     == {f.part : f \in {g \in fs : g.name = name}}
        next_part == IF parts # {} THEN SetMax(parts) + 1 ELSE 0
    IN  {f \in fs : ~(f.name = name /\ f.part = next_part)}
            \cup {[name |-> name, part |-> next_part, lines |-> lines]}

Field(tag, p) ==
    IF p = "none" THEN ""
    ELSE IF tag \in NumericTags THEN p
    ELSE Quote \o p \o Quote

PropFields(prop_dict, props) ==
    [k \in DOMAIN prop_dict |->
        Field(prop_dict[k], IF k \in DOMAIN props THEN props[k] ELSE "none")]

NodeLine(n, prop_dict, lbls) ==
    [id |-> n.id, fields |-> PropFields(prop_dict, n.props), labels |-> lbls]

EdgeLine(e, prop_dict) ==
    [source |-> e.source, fields |-> PropFields(prop_dict, e.props),
     target |-> e.target, type |-> Pascal(e.label)]

\* a node list written without the comparison of the property keys
WriteSingleNodeListToFileUnchecked(node_list, label, prop_dict, lbls, fs) ==
    LET lines == [i \in DOMAIN node_list |-> NodeLine(node_list[i], prop_dict, lbls)]
    IN  [passed |-> TRUE,
         files  |-> IF lines # <<>> THEN WriteNextPart(label, lines, fs) ELSE fs]

\* an edge list written whether or not it holds a line
WriteSingleEdgeListToFileAlways(edge_list, label, prop_dict, fs) ==
    IF \E i \in DOMAIN edge_list : DOMAIN edge_list[i].props # DOMAIN prop_dict
    THEN [passed |-> FALSE, files |-> fs]
    ELSE LET lines == [i \in DOMAIN edge_list |-> EdgeLine(edge_list[i], prop_dict)]
         IN  [passed |-> TRUE, files |-> WriteNextPart(label, lines, fs)]

\* passed and the directory after the call
WriteSingleNodeListToFile(node_list, label, prop_dict, lbls, fs) ==
    IF \E i \in DOMAIN node_list : DOMAIN node_list[i].props # DOMAIN prop_dict
    THEN [passed |-> FALSE, files |-> fs]
    ELSE LET lines == [i \in DOMAIN node_list |-> NodeLine(node_list[i], prop_dict, lbls)]
         IN  [passed |-> TRUE,
              files  |-> IF lines # <<>> THEN WriteNextPart(label, lines, fs) ELSE fs]

\* an edge list written without the comparison of the property keys
WriteSingleEdgeListToFileUnchecked(edge_list, label, prop_dict, fs) ==
    LET lines == [i \in DOMAIN edge_list |-> EdgeLine(edge_list[i], prop_dict)]
    IN  [passed |-> TRUE,
         files  |-> IF lines # <<>> THEN WriteNextPart(label, lines, fs) ELSE fs]

WriteSingleEdgeListToFile(edge_list, label, prop_dict, fs) ==
    IF \E i \in DOMAIN edge_list : DOMAIN edge_list[i].props # DOMAIN prop_dict
    THEN [passed |-> FALSE, files |-> fs]
    ELSE LET lines == [i \in DOMAIN edge_list |-> EdgeLine(edge_list[i], prop_dict)]
         IN  [passed |-> TRUE,
              files  |-> IF lines # <<>> THEN WriteNextPart(label, lines, fs) ELSE fs]

\* a depletion that leaves the remaining bins unwritten
WriteRemainderSkipped(kind, keys, b, rp, lb, fs) == [passed |-> TRUE, files |-> fs]

\* the loop over the remaining bins after the input is depleted; kind is
\* "node" or "edge"; stops at the first list that does not pass
RECURSIVE WriteRemainder(_, _, _, _, _, _)
WriteRemainder(kind, keys, b, rp, lb, fs) ==
    IF keys = <<>> THEN [passed |-> TRUE, files |-> fs]
    ELSE LET label == Head(keys)
             r == IF kind = "node"
                  THEN WriteSingleNodeListToFile(b.val[label], label, rp[label],
                                                 lb[label], fs)
                  ELSE WriteSingleEdgeListToFile(b.val[label], label, rp[label], fs)
         IN  IF r.passed
             THEN WriteRemainder(kind, Tail(keys), b, rp, lb, r.files)
             ELSE [passed |-> FALSE, files |-> fs]

\* self.<kind>_property_dict[label] = reference_props[label], in key order
RECURSIVE SaveProps(_, _, _)
SaveProps(pd, keys, rp) ==
    IF keys = <<>> THEN pd
    ELSE SaveProps(Put(pd, Head(keys), rp[Head(keys)]), Tail(keys), rp)

\* ---------------------------------------------------------- header files
\* a check that finds no header file
HeaderExistsNever(hs, name, ext) == FALSE

\* a header file of the output directory: <name>-<ext> holding text
HeaderExists(hs, name, ext) == \E h \in hs : h.name = name /\ h.ext = ext

\* PostgresBatchWriter._write_node_headers over the labels still to visit.
\* The statement building the columns reads values.items() of a type tag
\* (a string or None) and raises; with no property the loop body does not
\* run, the file is opened, and the unbound table_name raises.  The append
\* to import_call_nodes is never reached.
RECURSIVE NodeHeaderLoop(_, _, _)
NodeHeaderLoop(keys, npd, hs) ==
    IF keys = <<>> THEN [ret |-> "true", headers |-> hs]
    ELSE LET label == Head(keys)
             name  == Pascal(label)
         IN  IF HeaderExists(hs, name, "create_table.sql")
             THEN NodeHeaderLoop(Tail(keys), npd, hs)
             ELSE IF DOMAIN npd.val[label] # {}
             THEN [ret |-> "raised", headers |-> hs]
             ELSE [ret |-> "raised",
                   headers |-> hs \cup {[name |-> name, ext |-> "create_table.sql",
                                         text |-> NoProperties]}]

WriteNodeHeaders(npd, hs) ==
    IF npd.keys = <<>> THEN [ret |-> "false", headers |-> hs]
    ELSE NodeHeaderLoop(npd.keys, npd, hs)

\* the column of a property in an edge header
EdgeHeaderColumn(k, v) ==
    IF v \in {"int", "long"} THEN k \o ":long"
    ELSE IF v \in {"float", "double"} THEN k \o ":double"
    ELSE IF v \in {"bool", "boolean"} THEN k \o ":boolean"
    ELSE k

\* PostgresBatchWriter._write_edge_headers over the labels still to visit
RECURSIVE EdgeHeaderLoop(_, _, _, _)
EdgeHeaderLoop(keys, epd, hs, ice) ==
    IF keys = <<>> THEN [ret |-> "true", headers |-> hs, import_call_edges |-> ice]
    ELSE LET label == Head(keys)
             name  == Pascal(label)
             props == epd.val[label]
         IN  IF HeaderExists(hs, name, "header.csv")
             THEN EdgeHeaderLoop(Tail(keys), epd, hs, ice)
             ELSE EdgeHeaderLoop(Tail(keys), epd,
                     hs \cup {[name |-> name, ext |-> "header.csv",
                               text |-> [k \in DOMAIN props |->
                                            EdgeHeaderColumn(k, props[k])]]},
                     Append(ice, <<name \o "-header.csv", name \o "-part.*">>))

\* a header construction that writes the headers and reports False
WriteEdgeHeadersThenFalse(epd, hs, ice) ==
    [EdgeHeaderLoop(epd.keys, epd, hs, ice) EXCEPT !.ret = "false"]

WriteEdgeHeaders(epd, hs, ice) ==
    IF epd.keys = <<>>
    THEN [ret |-> "false", headers |-> hs, import_call_edges |-> ice]
    ELSE EdgeHeaderLoop(epd.keys, epd, hs, ice)

\* ------------------------------------------------------------ import call
\* the arguments of the command, each --nodes / --relationships argument as
\* a record of its header path and its partition glob
ImportCallOptions ==
    <<[kind |-> "command", text |-> "bin/neo4j-admin import"],
      [kind |-> "option", text |-> "--database"],
      [kind |-> "option", text |-> "--delimiter"],
      [kind |-> "option", text |-> "--array-delimiter"],
      [kind |-> "option", text |-> "--quote"]>>

ImportCallRefs(kind, refs) ==
    [i \in DOMAIN refs |-> [kind |-> kind, header |-> refs[i][1],
                                            parts |-> refs[i][2]]]

\* an import call that lists the relationships first
ConstructImportCallEdgesFirst(icn, ice) ==
    ImportCallOptions \o ImportCallRefs("relationships", ice)
                      \o ImportCallRefs("nodes", icn)

\* PostgresBatchWriter._construct_import_call
ConstructImportCall(icn, ice) ==
    ImportCallOptions \o ImportCallRefs("nodes", icn)
                      \o ImportCallRefs("relationships", ice)

\* ---------------------------------------------------------------- state
VARIABLES
    \* writer instance (BatchWriter.__init__)
    strict_mode, leaves,
    \* what ontology_adapter.get_node_ancestry answers, per node type
    ancestry,
    seen_node_ids, duplicate_node_ids, duplicate_node_types,
    seen_edges, duplicate_edge_ids, duplicate_edge_types,
    node_property_dict, edge_property_dict,
    import_call_nodes, import_call_edges,
    \* output directory: partition files, header files, and the text of
    \* neo4j-admin-import-call.sh (the empty tuple while it is not written)
    files, headers, import_call_file,
    \* the write call in progress
    op, pc, batch_size, nod, edg,
    bins, bin_l, reference_props, labels,
    result,
    \* what the call in progress has done so far: the number of entities
    \* taken from the input, the entities put into a bin (in that order), the
    \* partition files written, and whether an entity without id (a node) or
    \* without source or target (an edge) was among those taken
    taken, accepted, created, had_invalid,
    \* the type and key of every entity with a key that the loops of the call
    \* have taken
    given,
    \* what the writer instance was given: the nodes handed to its node loop,
    \* the node ids handed to it more than once, and the partition files
    \* found in the directory at construction
    submitted, resubmitted, files0,
    \* the duplicates the writer instance has skipped: the kind (node or
    \* edge), type label and key of each
    skipped,
    \* the partition files (name and index) that a killed process left
    \* partly written
    incomplete,
    \* every write call the writer instance has returned from returned True
    all_passed,
    \* calls made plus entities taken so far on the output directory
    work,
    \* the translator's record of the input types without an entry in the
    \* schema configuration, and what log_missing_bl_types returned last
    notype, mt,
    \* the type tags handed to _get_data_type that are still to be looked
    \* up, and each tag looked up with the column type returned for it
    col_types, columns,
    \* two writer instances flushing one type into one directory: where each
    \* is in _write_next_part, the index it found, the batches it has written
    part_pc, next_part, flushed

instvars == <<strict_mode, leaves, ancestry, seen_node_ids, duplicate_node_ids,
              duplicate_node_types, seen_edges, duplicate_edge_ids,
              duplicate_edge_types, node_property_dict, edge_property_dict,
              import_call_nodes, import_call_edges>>
diskvars == <<files, headers, import_call_file>>
callvars == <<op, pc, batch_size, nod, edg, bins, bin_l, reference_props,
              labels, result>>
callvars_but_op == <<pc, batch_size, nod, edg, bins, bin_l, reference_props,
                     labels, result>>
histvars == <<taken, accepted, created, had_invalid, given>>
ghostvars == <<submitted, resubmitted, files0, skipped, incomplete, all_passed>>
translatorvars == <<notype, mt>>
lookupvars == <<col_types, columns>>
flushvars == <<part_pc, next_part, flushed>>
sidevars == <<translatorvars, lookupvars, flushvars>>

\* the two writer instances, neither of them in _write_next_part
Writers == {"w1", "w2"}
NoFlush ==
    /\ part_pc = [w \in Writers |-> "idle"]
    /\ next_part = [w \in Writers |-> 0]
    /\ flushed = [w \in Writers |-> 0]
vars == <<instvars, diskvars, callvars, histvars, ghostvars, work, sidevars>>

\* a translator that has recorded no missing type; log_missing_bl_types not
\* called yet
NoMissingTypes == [k \in {} |-> 0]
NotCalled == <<"not called">>

Init ==
    /\ strict_mode \in BOOLEAN
    /\ leaves = InitialLeaves
    /\ ancestry = [l \in NodeLabels |-> Ancestry(l)]
    /\ seen_node_ids = {}
    /\ duplicate_node_ids = {}
    /\ duplicate_node_types = {}
    /\ seen_edges = [k \in {} |-> {}]
    /\ duplicate_edge_ids = {}
    /\ duplicate_edge_types = {}
    /\ node_property_dict = EmptyDict
    /\ edge_property_dict = EmptyDict
    /\ import_call_nodes = <<>>
    /\ import_call_edges = <<>>
    /\ files = {}
    /\ headers = {}
    /\ import_call_file = <<>>
    /\ op = "none"
    /\ pc = "idle"
    /\ batch_size = DefaultBatchSize
    /\ nod = <<>>
    /\ edg = <<>>
    /\ bins = EmptyDict
    /\ bin_l = [k \in {} |-> 0]
    /\ reference_props = [k \in {} |-> NoProperties]
    /\ labels = [k \in {} |-> ""]
    /\ result = "none"
    /\ taken = 0
    /\ accepted = <<>>
    /\ created = {}
    /\ had_invalid = FALSE
    /\ given = {}
    /\ submitted = {}
    /\ resubmitted = {}
    /\ skipped = {}
    /\ files0 = {}
    /\ incomplete = {}
    /\ all_passed = TRUE
    /\ work = 0
    /\ notype = NoMissingTypes
    /\ mt = NotCalled
    /\ col_types = <<>>
    /\ columns = <<>>
    /\ NoFlush

\* --------------------------------------------------------------- actions
\* batch_size of the data loop in progress: write_edges hands its embedded
\* nodes to write_nodes without a batch size
CurBatch == IF op = "write_edges" /\ pc = "node_data" THEN DefaultBatchSize
            ELSE batch_size

\* the locals of _write_node_data / _write_edge_data at entry
FreshLocals ==
    /\ bins' = EmptyDict
    /\ bin_l' = [k \in {} |-> 0]
    /\ reference_props' = [k \in {} |-> NoProperties]
    /\ labels' = [k \in {} |-> ""]

\* the call returns (or raises) with outcome r; its locals are gone
Return(r) ==
    /\ pc' = "returned"
    /\ result' = r
    /\ nod' = <<>>
    /\ edg' = <<>>
    /\ FreshLocals

\* the data loop goes on, the input still to come being n and e
Continue(n, e) ==
    /\ nod' = n
    /\ edg' = e
    /\ UNCHANGED <<pc, result>>

\* the caller has the outcome of the call; nothing of the call is left
Returned ==
    /\ pc = "returned"
    /\ UNCHANGED sidevars
    /\ pc' = "idle"
    /\ result' = "none"
    /\ batch_size' = DefaultBatchSize
    /\ taken' = 0
    /\ accepted' = <<>>
    /\ created' = {}
    /\ had_invalid' = FALSE
    /\ given' = {}
    /\ all_passed' = (all_passed /\ result = "true")
    /\ UNCHANGED <<instvars, diskvars, op, nod, edg, bins, bin_l, reference_props,
                   labels, submitted, resubmitted, files0, skipped, incomplete,
                   work>>

\* BatchWriter.__init__ on the same output directory, replacing a writer
\* that has been used
NewWriter ==
    /\ pc = "idle"
    /\ op # "none"
    /\ UNCHANGED sidevars
    /\ strict_mode' \in BOOLEAN
    /\ leaves' = InitialLeaves
    /\ ancestry' = ancestry
    /\ seen_node_ids' = {}
    /\ duplicate_node_ids' = {}
    /\ duplicate_node_types' = {}
    /\ seen_edges' = [k \in {} |-> {}]
    /\ duplicate_edge_ids' = {}
    /\ duplicate_edge_types' = {}
    /\ node_property_dict' = EmptyDict
    /\ edge_property_dict' = EmptyDict
    /\ import_call_nodes' = <<>>
    /\ import_call_edges' = <<>>
    /\ op' = "none"
    /\ submitted' = {}
    /\ resubmitted' = {}
    /\ skipped' = {}
    /\ files0' = files
    /\ all_passed' = TRUE
    /\ UNCHANGED <<diskvars, callvars_but_op, histvars, incomplete, work>>

\* write_nodes(nodes, batch_size) is entered
WriteNodes(b) ==
    /\ pc = "idle"
    /\ work < MaxWork
    /\ UNCHANGED sidevars
    /\ work' = work + 1
    /\ op' = "write_nodes"
    /\ pc' = "node_data"
    /\ batch_size' = b
    /\ result' = "none"
    /\ FreshLocals
    /\ nod' = <<>>
    /\ edg' = <<>>
    /\ taken' = 0
    /\ accepted' = <<>>
    /\ created' = {}
    /\ had_invalid' = FALSE
    /\ given' = {}
    /\ UNCHANGED <<instvars, diskvars, ghostvars>>

\* a check that takes every node id for one already written
SeenNodeAlways(seen, _id) == TRUE

\* the check of a node id against the ids already written
SeenNode(seen, _id) == _id \in seen

\* a set of seen ids that keeps the latest id only
SeenNodeIdsLatest(seen, _id) == {_id}

\* self.seen_node_ids.add(_id)
SeenNodeIdsAdd(seen, _id) == seen \cup {_id}

\* a cut-off two entities late
BinFullLate(l, b) == ~(l < b + 2)

\* the cut-off of a bin holding l entities: not bin_l[label] < batch_size
BinFull(l, b) == ~(l < b)

\* an edge key looked up under every label
SeenEdgeAnyLabel(seen, label, src_tar_id) ==
    \E k \in DOMAIN seen : src_tar_id \in seen[k]

\* the check of an edge key against the keys already written for its label
SeenEdge(seen, label, src_tar_id) == src_tar_id \in seen[label]

\* one pass of the loop of _write_node_data over node; n and e are the input
\* still to come after it
NodeIteration(node, n, e) ==
    LET _id   == node.id
        label == node.label
    IN  /\ UNCHANGED <<strict_mode, leaves, ancestry, seen_edges, duplicate_edge_ids,
                       duplicate_edge_types, node_property_dict,
                       edge_property_dict, import_call_nodes, import_call_edges,
                       headers, import_call_file, op, batch_size, files0,
                       incomplete, all_passed>>
        /\ submitted' = submitted \cup {node}
        /\ had_invalid' = (had_invalid \/ _id = "")
        /\ given' = IF _id = "" THEN given
                    ELSE given \cup {[label |-> label, id |-> _id]}
        /\ resubmitted' = IF \E m \in submitted : m.id = _id
                          THEN resubmitted \cup {_id} ELSE resubmitted
        /\ skipped' = IF _id # "" /\ SeenNode(seen_node_ids, _id)
                      THEN skipped \cup {[kind |-> "node", label |-> label,
                                          key |-> _id]}
                      ELSE skipped
        /\ IF _id = ""
           THEN /\ Continue(n, e)
                /\ UNCHANGED <<seen_node_ids, duplicate_node_ids,
                               duplicate_node_types, files, bins, bin_l,
                               reference_props, labels, accepted, created>>
           ELSE IF SeenNode(seen_node_ids, _id)
           THEN /\ duplicate_node_ids' = duplicate_node_ids \cup {_id}
                /\ duplicate_node_types' = duplicate_node_types \cup {label}
                /\ Continue(n, e)
                /\ UNCHANGED <<seen_node_ids, files, bins, bin_l,
                               reference_props, labels, accepted, created>>
           ELSE /\ UNCHANGED <<duplicate_node_ids, duplicate_node_types>>
                /\ accepted' = Append(accepted, [label |-> label, id |-> _id,
                                                  keys |-> DOMAIN node.props])
                /\ IF ~Has(bins, label)
                   THEN /\ bins' = Put(bins, label, <<node>>)
                        /\ bin_l' = MapPut(bin_l, label, 1)
                        /\ reference_props' =
                               MapPut(reference_props, label,
                                      NodeReferenceProps(node, leaves, strict_mode))
                        /\ labels' = MapPut(labels, label,
                                             AllLabels(label, ancestry[label]))
                        /\ seen_node_ids' = SeenNodeIdsAdd(seen_node_ids, _id)
                        /\ Continue(n, e)
                        /\ UNCHANGED <<files, created>>
                   ELSE LET node_list == Append(bins.val[label], node)
                            l == bin_l[label] + 1
                        IN  IF BinFull(l, CurBatch)
                            THEN LET r == WriteSingleNodeListToFile(node_list, label,
                                              reference_props[label], labels[label],
                                              files)
                                 IN  IF ~r.passed
                                     THEN /\ Return("false")
                                          /\ UNCHANGED <<files, seen_node_ids, created>>
                                     ELSE /\ bins' = Put(bins, label, <<>>)
                                          /\ bin_l' = MapPut(bin_l, label, 0)
                                          /\ files' = r.files
                                          /\ created' = created \cup (r.files \ files)
                                          /\ seen_node_ids' = SeenNodeIdsAdd(seen_node_ids, _id)
                                          /\ Continue(n, e)
                                          /\ UNCHANGED <<reference_props, labels>>
                            ELSE /\ bins' = Put(bins, label, node_list)
                                 /\ bin_l' = MapPut(bin_l, label, l)
                                 /\ seen_node_ids' = SeenNodeIdsAdd(seen_node_ids, _id)
                                 /\ Continue(n, e)
                                 /\ UNCHANGED <<files, reference_props, labels,
                                                created>>

\* the generator passed to write_nodes yields node
NodeLoop(node) ==
    /\ pc = "node_data"
    /\ op = "write_nodes"
    /\ taken < MaxInput
    /\ work < MaxWork
    /\ UNCHANGED sidevars
    /\ taken' = taken + 1
    /\ work' = work + 1
    /\ NodeIteration(node, nod, edg)

\* the list of embedded nodes of write_edges yields its next node
EmbeddedNodeLoop ==
    /\ pc = "node_data"
    /\ op = "write_edges"
    /\ nod # <<>>
    /\ NodeIteration(Head(nod), Tail(nod), edg)
    /\ UNCHANGED sidevars
    /\ UNCHANGED <<taken, work>>

\* the input of _write_node_data is depleted: remainder of the bins, the
\* schema record, then write_nodes builds the node headers; write_edges
\* goes on to _write_edge_data(edg, batch_size) when write_nodes passed
NodeDepleted ==
    /\ pc = "node_data"
    /\ op = "write_edges" => nod = <<>>
    /\ UNCHANGED sidevars
    /\ LET r == WriteRemainder("node", bins.keys, bins, reference_props, labels, files)
       IN  /\ files' = r.files
           /\ created' = created \cup (r.files \ files)
           /\ IF ~r.passed
              THEN /\ Return("false")
                   /\ UNCHANGED <<node_property_dict, headers>>
              ELSE LET npd == SaveProps(node_property_dict, bins.keys, reference_props)
                       h   == WriteNodeHeaders(npd, headers)
                   IN  /\ node_property_dict' = npd
                       /\ headers' = h.headers
                       /\ IF h.ret = "true" /\ op = "write_edges"
                          THEN /\ pc' = "edge_data"
                               /\ FreshLocals
                               /\ UNCHANGED <<result, nod, edg>>
                          ELSE Return(h.ret)
    /\ UNCHANGED <<strict_mode, leaves, ancestry, seen_node_ids, duplicate_node_ids,
                   duplicate_node_types, seen_edges, duplicate_edge_ids,
                   duplicate_edge_types, edge_property_dict, import_call_nodes,
                   import_call_edges, import_call_file, op, batch_size, taken,
                   accepted, had_invalid, given, ghostvars, work>>

\* the nodes of the BioCypherRelAsNode entities of the input, in order
RECURSIVE EmbeddedNodes(_)
EmbeddedNodes(edges) ==
    IF edges = <<>> THEN <<>>
    ELSE (IF IsRelAsNode(Head(edges)) THEN <<Head(edges).node>> ELSE <<>>)
             \o EmbeddedNodes(Tail(edges))

\* the edges of the input, a BioCypherRelAsNode giving its two edges
RECURSIVE FlatEdges(_)
FlatEdges(edges) ==
    IF edges = <<>> THEN <<>>
    ELSE (IF IsRelAsNode(Head(edges))
          THEN <<Head(edges).source_edge, Head(edges).target_edge>>
          ELSE <<Head(edges)>>)
             \o FlatEdges(Tail(edges))

\* a test that takes every input for one that holds edges
NoEdgesNever(edges) == FALSE

\* not edges, of the list the input was unwrapped into
NoEdges(edges) == edges = <<>>

\* write_edges(edges, batch_size) is entered: the whole input is unwrapped
WriteEdges(edges, b) ==
    /\ pc = "idle"
    /\ work + 1 + Len(edges) <= MaxWork
    /\ UNCHANGED sidevars
    /\ work' = work + 1 + Len(edges)
    /\ op' = "write_edges"
    /\ batch_size' = b
    /\ taken' = Len(edges)
    /\ accepted' = <<>>
    /\ created' = {}
    /\ had_invalid' = FALSE
    /\ given' = {}
    /\ IF NoEdges(edges)
       THEN Return("false")
       ELSE /\ nod' = EmbeddedNodes(edges)
            /\ edg' = FlatEdges(edges)
            /\ result' = "none"
            /\ pc' = IF nod' # <<>> /\ edg' # <<>> THEN "node_data" ELSE "edge_data"
            /\ FreshLocals
    /\ UNCHANGED <<instvars, diskvars, ghostvars>>

\* one pass of the loop of _write_edge_data over e; rest is the input still
\* to come after it
EdgeIteration(e, rest) ==
    LET label      == e.label
        src_tar_id == e.source \o "_" \o e.target
        seen       == IF label \in DOMAIN seen_edges THEN seen_edges
                      ELSE MapPut(seen_edges, label, {})
    IN  /\ UNCHANGED <<strict_mode, ancestry, seen_node_ids, duplicate_node_ids,
                       duplicate_node_types, node_property_dict,
                       edge_property_dict, import_call_nodes, import_call_edges,
                       headers, import_call_file, op, batch_size, submitted,
                       resubmitted, files0, incomplete, all_passed>>
        /\ skipped' = IF /\ e.source # "" /\ e.target # ""
                         /\ SeenEdge(seen, label, src_tar_id)
                      THEN skipped \cup {[kind |-> "edge", label |-> label,
                                          key |-> src_tar_id]}
                      ELSE skipped
        /\ had_invalid' = (had_invalid \/ ~(e.source # "" /\ e.target # ""))
        /\ given' = IF ~(e.source # "" /\ e.target # "") THEN given
                    ELSE given \cup {[label |-> label, id |-> src_tar_id]}
        /\ IF ~(e.source # "" /\ e.target # "")
           THEN /\ Continue(nod, rest)
                /\ UNCHANGED <<leaves, seen_edges, duplicate_edge_ids,
                               duplicate_edge_types, files, bins, bin_l,
                               reference_props, labels, accepted, created>>
           ELSE IF SeenEdge(seen, label, src_tar_id)
           THEN /\ seen_edges' = seen
                /\ duplicate_edge_ids' = duplicate_edge_ids \cup {src_tar_id}
                /\ duplicate_edge_types' = duplicate_edge_types \cup {label}
                /\ Continue(nod, rest)
                /\ UNCHANGED <<leaves, files, bins, bin_l, reference_props,
                               labels, accepted, created>>
           ELSE /\ seen_edges' = [seen EXCEPT ![label] = @ \cup {src_tar_id}]
                /\ UNCHANGED <<duplicate_edge_ids, duplicate_edge_types>>
                /\ accepted' = Append(accepted, [label |-> label, id |-> src_tar_id,
                                                  keys |-> DOMAIN e.props])
                /\ IF ~Has(bins, label)
                   THEN LET rp == EdgeReferenceProps(e, leaves, strict_mode)
                        IN  /\ bins' = Put(bins, label, <<e>>)
                            /\ bin_l' = MapPut(bin_l, label, 1)
                            /\ reference_props' = MapPut(reference_props, label, rp.d)
                            /\ leaves' = rp.leaves
                            /\ Continue(nod, rest)
                            /\ UNCHANGED <<files, labels, created>>
                   ELSE LET edge_list == Append(bins.val[label], e)
                            l == bin_l[label] + 1
                        IN  IF BinFull(l, CurBatch)
                            THEN LET r == WriteSingleEdgeListToFile(edge_list, label,
                                              reference_props[label], files)
                                 IN  IF ~r.passed
                                     THEN /\ Return("false")
                                          /\ UNCHANGED <<files, leaves, created>>
                                     ELSE /\ bins' = Put(bins, label, <<>>)
                                          /\ bin_l' = MapPut(bin_l, label, 0)
                                          /\ files' = r.files
                                          /\ created' = created \cup (r.files \ files)
                                          /\ Continue(nod, rest)
                                          /\ UNCHANGED <<leaves, reference_props,
                                                         labels>>
                            ELSE /\ bins' = Put(bins, label, edge_list)
                                 /\ bin_l' = MapPut(bin_l, label, l)
                                 /\ Continue(nod, rest)
                                 /\ UNCHANGED <<files, leaves, reference_props,
                                                labels, created>>

\* the unwrapped edge list yields its next edge
EdgeLoop ==
    /\ pc = "edge_data"
    /\ edg # <<>>
    /\ EdgeIteration(Head(edg), Tail(edg))
    /\ UNCHANGED sidevars
    /\ UNCHANGED <<taken, work>>

\* the input of _write_edge_data is depleted: remainder of the bins, the
\* schema record, then write_edges builds the edge headers
EdgeDepleted ==
    /\ pc = "edge_data"
    /\ edg = <<>>
    /\ UNCHANGED sidevars
    /\ LET r == WriteRemainder("edge", bins.keys, bins, reference_props, labels, files)
       IN  /\ files' = r.files
           /\ created' = created \cup (r.files \ files)
           /\ IF ~r.passed
              THEN /\ Return("false")
                   /\ UNCHANGED <<edge_property_dict, headers, import_call_edges>>
              ELSE LET epd == SaveProps(edge_property_dict, bins.keys, reference_props)
                       h   == WriteEdgeHeaders(epd, headers, import_call_edges)
                   IN  /\ edge_property_dict' = epd
                       /\ headers' = h.headers
                       /\ import_call_edges' = h.import_call_edges
                       /\ Return(h.ret)
    /\ UNCHANGED <<strict_mode, leaves, ancestry, seen_node_ids, duplicate_node_ids,
                   duplicate_node_types, seen_edges, duplicate_edge_ids,
                   duplicate_edge_types, node_property_dict, import_call_nodes,
                   import_call_file, op, batch_size, taken, accepted, had_invalid,
                   given, ghostvars, work>>

\* write_import_call: the command goes to neo4j-admin-import-call.sh
WriteImportCall ==
    /\ pc = "idle"
    /\ work < MaxWork
    /\ UNCHANGED sidevars
    /\ work' = work + 1
    /\ import_call_file' = ConstructImportCall(import_call_nodes, import_call_edges)
    /\ UNCHANGED <<instvars, files, headers, callvars, histvars, ghostvars>>

Next ==
    \/ NewWriter
    \/ WriteImportCall
    \/ Returned
    \/ \E b \in BatchSizes : WriteNodes(b)
    \/ \E node \in Nodes : NodeLoop(node)
    \/ NodeDepleted
    \/ \E edges \in EdgeInputs, b \in BatchSizes : WriteEdges(edges, b)
    \/ EmbeddedNodeLoop
    \/ EdgeLoop
    \/ EdgeDepleted

Spec == Init /\ [][Next]_vars

\* The process is killed while _write_next_part writes the bin of a type
\* after the input is depleted: the bins before it are written, the file of
\* this one is open and holds the first k of its lines (none while they are
\* still buffered).  Nothing of the process is left; the next run
\* constructs its writer on the same output directory.
CrashInFlush(kind) ==
    /\ pc = IF kind = "node" THEN "node_data" ELSE "edge_data"
    /\ UNCHANGED sidevars
    /\ IF kind = "node" THEN op = "write_edges" => nod = <<>> ELSE edg = <<>>
    /\ \E j \in DOMAIN bins.keys :
          LET label == bins.keys[j]
              r   == WriteRemainder(kind, SubSeq(bins.keys, 1, j - 1), bins,
                                    reference_props, labels, files)
              one == IF kind = "node"
                     THEN WriteSingleNodeListToFile(bins.val[label], label,
                              reference_props[label], labels[label], r.files)
                     ELSE WriteSingleEdgeListToFile(bins.val[label], label,
                              reference_props[label], r.files)
          IN  /\ r.passed
              /\ one.passed
              /\ \E f \in one.files \ r.files, k \in 0..MaxInput :
                    /\ k < Len(f.lines)
                    /\ files' = r.files \cup
                                    {[f EXCEPT !.lines = SubSeq(f.lines, 1, k)]}
                    /\ incomplete' = incomplete \cup
                                    {[name |-> f.name, part |-> f.part]}
    /\ strict_mode' \in BOOLEAN
    /\ leaves' = InitialLeaves
    /\ ancestry' = ancestry
    /\ seen_node_ids' = {}
    /\ duplicate_node_ids' = {}
    /\ duplicate_node_types' = {}
    /\ seen_edges' = [k \in {} |-> {}]
    /\ duplicate_edge_ids' = {}
    /\ duplicate_edge_types' = {}
    /\ node_property_dict' = EmptyDict
    /\ edge_property_dict' = EmptyDict
    /\ import_call_nodes' = <<>>
    /\ import_call_edges' = <<>>
    /\ op' = "none"
    /\ pc' = "idle"
    /\ batch_size' = DefaultBatchSize
    /\ nod' = <<>>
    /\ edg' = <<>>
    /\ FreshLocals
    /\ result' = "none"
    /\ taken' = 0
    /\ accepted' = <<>>
    /\ created' = {}
    /\ had_invalid' = FALSE
    /\ given' = {}
    /\ submitted' = {}
    /\ resubmitted' = {}
    /\ skipped' = {}
    /\ files0' = files'
    /\ all_passed' = TRUE
    /\ UNCHANGED <<headers, import_call_file, work>>

NextCrash ==
    \/ Next
    \/ CrashInFlush("node")
    \/ CrashInFlush("edge")

SpecCrash == Init /\ [][NextCrash]_vars

\* the answers the ontology may come to give for the ancestry of a node type
OntologyAnswers ==
    {<<>>, <<"protein", "entity">>, <<"protein", "entity", "protein">>}

\* the ontology behind the adapter changes: get_node_ancestry(l) answers a
OntologyChanges(l, a) ==
    /\ work < MaxWork
    /\ UNCHANGED sidevars
    /\ work' = work + 1
    /\ a # ancestry[l]
    /\ ancestry' = [ancestry EXCEPT ![l] = a]
    /\ UNCHANGED <<strict_mode, leaves, seen_node_ids, duplicate_node_ids,
                   duplicate_node_types, seen_edges, duplicate_edge_ids,
                   duplicate_edge_types, node_property_dict, edge_property_dict,
                   import_call_nodes, import_call_edges, diskvars, callvars,
                   histvars, ghostvars>>

NextOntology ==
    \/ Next
    \/ \E l \in NodeLabels, a \in OntologyAnswers : OntologyChanges(l, a)

SpecOntology == Init /\ [][NextOntology]_vars

\* the references header construction appends: header path, partition glob
NodeRefs == {<<Pascal(l) \o "-create_table.sql", Pascal(l) \o "-part.*">> :
                l \in NodeLabels}
EdgeRefs == {<<Pascal(l) \o "-header.csv", Pascal(l) \o "-part.*">> :
                l \in EdgeLabels}

\* the lists of references, a type at most once
RefLists(S) ==
    {s \in SeqsUpTo(S, Cardinality(S)) :
        \A i, j \in DOMAIN s : s[i] = s[j] => i = j}

\* a writer whose two reference lists hold any references, in any order
InitImportCall ==
    /\ strict_mode \in BOOLEAN
    /\ leaves = InitialLeaves
    /\ ancestry = [l \in NodeLabels |-> Ancestry(l)]
    /\ seen_node_ids = {}
    /\ duplicate_node_ids = {}
    /\ duplicate_node_types = {}
    /\ seen_edges = [k \in {} |-> {}]
    /\ duplicate_edge_ids = {}
    /\ duplicate_edge_types = {}
    /\ node_property_dict = EmptyDict
    /\ edge_property_dict = EmptyDict
    /\ import_call_nodes \in RefLists(NodeRefs)
    /\ import_call_edges \in RefLists(EdgeRefs)
    /\ files = {}
    /\ headers = {}
    /\ import_call_file = <<>>
    /\ op = "none"
    /\ pc = "idle"
    /\ batch_size = DefaultBatchSize
    /\ nod = <<>>
    /\ edg = <<>>
    /\ bins = EmptyDict
    /\ bin_l = [k \in {} |-> 0]
    /\ reference_props = [k \in {} |-> NoProperties]
    /\ labels = [k \in {} |-> ""]
    /\ result = "none"
    /\ taken = 0
    /\ accepted = <<>>
    /\ created = {}
    /\ had_invalid = FALSE
    /\ given = {}
    /\ submitted = {}
    /\ resubmitted = {}
    /\ skipped = {}
    /\ files0 = {}
    /\ incomplete = {}
    /\ all_passed = TRUE
    /\ work = 0
    /\ notype = NoMissingTypes
    /\ mt = NotCalled
    /\ col_types = <<>>
    /\ columns = <<>>
    /\ NoFlush

SpecImportCall == InitImportCall /\ [][WriteImportCall]_vars

\* the counts a translator records for a type, and the types of its input
MaxMissingCount == 3
MissingLabels == {"a", "b", "c"}

\* the mappings the translator may hold: some types, each with its count
MissingTypes ==
    UNION {[S -> 1..MaxMissingCount] : S \in SUBSET MissingLabels}

\* Translator.get_missing_biolink_types: the translator's mapping itself
GetMissingBiolinkTypes == notype

\* a return of the mapping whether it is empty or not
LogMissingBlTypesReturnAlways(m) == <<"dict", m>>

\* what log_missing_bl_types returns for the mapping m: m itself if it is
\* truthy, None otherwise
LogMissingBlTypesReturn(m) ==
    IF DOMAIN m # {} THEN <<"dict", m>> ELSE <<"None">>

\* Driver.log_missing_bl_types
LogMissingBlTypes ==
    /\ mt' = LogMissingBlTypesReturn(GetMissingBiolinkTypes)
    /\ notype' = notype
    /\ UNCHANGED <<instvars, diskvars, callvars, histvars, ghostvars, work,
                   lookupvars, flushvars>>

\* a driver whose translator holds any mapping of missing types
InitMissingTypes ==
    /\ strict_mode = FALSE
    /\ leaves = InitialLeaves
    /\ ancestry = [l \in NodeLabels |-> Ancestry(l)]
    /\ seen_node_ids = {}
    /\ duplicate_node_ids = {}
    /\ duplicate_node_types = {}
    /\ seen_edges = [k \in {} |-> {}]
    /\ duplicate_edge_ids = {}
    /\ duplicate_edge_types = {}
    /\ node_property_dict = EmptyDict
    /\ edge_property_dict = EmptyDict
    /\ import_call_nodes = <<>>
    /\ import_call_edges = <<>>
    /\ files = {}
    /\ headers = {}
    /\ import_call_file = <<>>
    /\ op = "none"
    /\ pc = "idle"
    /\ batch_size = DefaultBatchSize
    /\ nod = <<>>
    /\ edg = <<>>
    /\ bins = EmptyDict
    /\ bin_l = [k \in {} |-> 0]
    /\ reference_props = [k \in {} |-> NoProperties]
    /\ labels = [k \in {} |-> ""]
    /\ result = "none"
    /\ taken = 0
    /\ accepted = <<>>
    /\ created = {}
    /\ had_invalid = FALSE
    /\ given = {}
    /\ submitted = {}
    /\ resubmitted = {}
    /\ skipped = {}
    /\ files0 = {}
    /\ incomplete = {}
    /\ all_passed = TRUE
    /\ work = 0
    /\ notype \in MissingTypes
    /\ mt = NotCalled
    /\ col_types = <<>>
    /\ columns = <<>>
    /\ NoFlush

SpecMissingTypes == InitMissingTypes /\ [][LogMissingBlTypes]_vars

\* a writer just constructed on an empty directory, no call made
FreshWriter ==
    /\ strict_mode = FALSE
    /\ leaves = InitialLeaves
    /\ ancestry = [l \in NodeLabels |-> Ancestry(l)]
    /\ seen_node_ids = {}
    /\ duplicate_node_ids = {}
    /\ duplicate_node_types = {}
    /\ seen_edges = [k \in {} |-> {}]
    /\ duplicate_edge_ids = {}
    /\ duplicate_edge_types = {}
    /\ node_property_dict = EmptyDict
    /\ edge_property_dict = EmptyDict
    /\ import_call_nodes = <<>>
    /\ import_call_edges = <<>>
    /\ files = {}
    /\ headers = {}
    /\ import_call_file = <<>>
    /\ op = "none"
    /\ pc = "idle"
    /\ batch_size = DefaultBatchSize
    /\ nod = <<>>
    /\ edg = <<>>
    /\ bins = EmptyDict
    /\ bin_l = [k \in {} |-> 0]
    /\ reference_props = [k \in {} |-> NoProperties]
    /\ labels = [k \in {} |-> ""]
    /\ result = "none"
    /\ taken = 0
    /\ accepted = <<>>
    /\ created = {}
    /\ had_invalid = FALSE
    /\ given = {}
    /\ submitted = {}
    /\ resubmitted = {}
    /\ skipped = {}
    /\ files0 = {}
    /\ incomplete = {}
    /\ all_passed = TRUE
    /\ work = 0

\* DATA_TYPE_LOOKUP
DataTypeLookup ==
    [t \in {"str", "int", "long", "float", "double", "dbl", "boolean",
            "str[]", "string[]"} |->
        CASE t = "str" -> "VARCHAR"
          [] t = "int" -> "INTEGER"
          [] t = "long" -> "BIGINT"
          [] t \in {"float", "double", "dbl"} -> "NUMERIC"
          [] t = "boolean" -> "BOOLEAN"
          [] OTHER -> "TEXT[]"]

\* the tags of a schema: those of the table, the type names Python gives
\* to the values of a first entity, and None (here "none")
ColumnTags ==
    DOMAIN DataTypeLookup \cup {"bool", "list", "NoneType", "", "none"}

\* the number of columns of a table
MaxColumns == 2

\* a lookup that lets the KeyError of an unknown tag through
GetDataTypeStrict(string) ==
    IF string \in DOMAIN DataTypeLookup THEN DataTypeLookup[string]
    ELSE "KeyError"

\* _get_data_type(string): the entry of the table, VARCHAR on a KeyError
GetDataType(string) ==
    IF string \in DOMAIN DataTypeLookup THEN DataTypeLookup[string]
    ELSE "VARCHAR"

\* _get_data_type is called for the next tag
LookUpDataType ==
    /\ col_types # <<>>
    /\ columns' = Append(columns, <<Head(col_types), GetDataType(Head(col_types))>>)
    /\ col_types' = Tail(col_types)
    /\ UNCHANGED <<instvars, diskvars, callvars, histvars, ghostvars, work,
                   translatorvars, flushvars>>

\* the tags of the columns of any table
InitDataTypes ==
    /\ FreshWriter
    /\ notype = NoMissingTypes
    /\ mt = NotCalled
    /\ col_types \in SeqsUpTo(ColumnTags, MaxColumns)
    /\ columns = <<>>
    /\ NoFlush

SpecDataTypes == InitDataTypes /\ [][LookUpDataType]_vars

\* node ids that hold the character joining the two ids of an edge key
UnderscoreIds == {"a", "a_b", "b_c", "c"}

\* edges of one type between nodes with such ids
UnderscoreEdges ==
    [source : UnderscoreIds, target : UnderscoreIds, label : {"binds"},
     props : {NoProperties}]

\* write_edges on edges between nodes with such ids
NextUnderscore ==
    \/ Returned
    \/ \E edges \in SeqsUpTo(UnderscoreEdges, MaxEdgeInput), b \in BatchSizes :
          WriteEdges(edges, b)
    \/ EdgeLoop
    \/ EdgeDepleted

SpecUnderscore == Init /\ [][NextUnderscore]_vars

\* the batches a writer flushes, and the partition files of the type that
\* are in the directory before the two writers start
MaxFlushes == 2
MaxExisting == 2

\* the lines of batch b of writer w
BatchLines(w, b) == <<[id |-> w, batch |-> b]>>

\* the index _write_next_part computes from the files it globs
FindNextPart(label, fs) ==
    LET parts == {f.part : f \in {g \in fs : g.name = Pascal(label)}}
    IN  IF parts # {} THEN SetMax(parts) + 1 ELSE 0

\* open(file_path, 'w') and writelines: a file of that name is replaced
OpenWritePart(label, part, lines, fs) ==
    {f \in fs : ~(f.name = Pascal(label) /\ f.part = part)}
        \cup {[name |-> Pascal(label), part |-> part, lines |-> lines]}

\* writer w lists the partition files of the type and computes its index
GlobParts(w) ==
    /\ part_pc[w] = "idle"
    /\ flushed[w] < MaxFlushes
    /\ next_part' = [next_part EXCEPT ![w] = FindNextPart("protein", files)]
    /\ part_pc' = [part_pc EXCEPT ![w] = "found"]
    /\ UNCHANGED <<instvars, diskvars, callvars, histvars, ghostvars, work,
                   translatorvars, lookupvars, flushed>>

\* writer w opens the file of its index and writes its batch
WritePart(w) ==
    /\ part_pc[w] = "found"
    /\ files' = OpenWritePart("protein", next_part[w],
                              BatchLines(w, flushed[w] + 1), files)
    /\ flushed' = [flushed EXCEPT ![w] = @ + 1]
    /\ part_pc' = [part_pc EXCEPT ![w] = "idle"]
    /\ UNCHANGED <<instvars, headers, import_call_file, callvars, histvars,
                   ghostvars, work, translatorvars, lookupvars, next_part>>

\* a directory that holds any number of partition files of the type
InitTwoWriters ==
    /\ \E k \in 0..MaxExisting :
          files = {[name |-> Pascal("protein"), part |-> i,
                    lines |-> BatchLines("w0", i + 1)] : i \in 0..(k - 1)}
    /\ strict_mode = FALSE
    /\ leaves = InitialLeaves
    /\ ancestry = [l \in NodeLabels |-> Ancestry(l)]
    /\ seen_node_ids = {}
    /\ duplicate_node_ids = {}
    /\ duplicate_node_types = {}
    /\ seen_edges = [k \in {} |-> {}]
    /\ duplicate_edge_ids = {}
    /\ duplicate_edge_types = {}
    /\ node_property_dict = EmptyDict
    /\ edge_property_dict = EmptyDict
    /\ import_call_nodes = <<>>
    /\ import_call_edges = <<>>
    /\ headers = {}
    /\ import_call_file = <<>>
    /\ op = "none"
    /\ pc = "idle"
    /\ batch_size = DefaultBatchSize
    /\ nod = <<>>
    /\ edg = <<>>
    /\ bins = EmptyDict
    /\ bin_l = [k \in {} |-> 0]
    /\ reference_props = [k \in {} |-> NoProperties]
    /\ labels = [k \in {} |-> ""]
    /\ result = "none"
    /\ taken = 0
    /\ accepted = <<>>
    /\ created = {}
    /\ had_invalid = FALSE
    /\ given = {}
    /\ submitted = {}
    /\ resubmitted = {}
    /\ skipped = {}
    /\ files0 = {}
    /\ incomplete = {}
    /\ all_passed = TRUE
    /\ work = 0
    /\ notype = NoMissingTypes
    /\ mt = NotCalled
    /\ col_types = <<>>
    /\ columns = <<>>
    /\ NoFlush

NextTwoWriters == \E w \in Writers : GlobParts(w) \/ WritePart(w)

SpecTwoWriters == InitTwoWriters /\ [][NextTwoWriters]_vars

\* a report of every node id seen instead of the duplicate ones
GetDuplicateNodesAllSeen ==
    IF duplicate_node_types # {}
    THEN <<duplicate_node_types, seen_node_ids>> ELSE <<>>

\* get_duplicate_nodes / get_duplicate_edges: the duplicate types and ids,
\* None (here the empty tuple) when no type has duplicates
GetDuplicateNodes ==
    IF duplicate_node_types # {}
    THEN <<duplicate_node_types, duplicate_node_ids>> ELSE <<>>

GetDuplicateEdges ==
    IF duplicate_edge_types # {}
    THEN <<duplicate_edge_types, duplicate_edge_ids>> ELSE <<>>

TypeOK ==
    /\ pc \in {"idle", "node_data", "edge_data", "returned"}
    /\ result \in {"none", "true", "false", "raised"}

\* ------------------------------------------------------------ properties
Running == pc \in {"node_data", "edge_data"}
Finished == pc \in {"returned", "idle"}

NodeFileNames == {Pascal(l) : l \in NodeLabels}

\* the partition files written by the writer instance in use
OwnFiles == files \ files0

\* the rows of the files fs, each as <<file, position>>
Rows(fs) == UNION {{<<f, i>> : i \in DOMAIN f.lines} : f \in fs}

\* the number of rows with node id _id in the node files fs
NodeRows(fs, _id) ==
    Cardinality({x \in Rows({f \in fs : f.name \in NodeFileNames}) :
                    x[1].lines[x[2]].id = _id})

\* every node handed to the writer instance has an id, no id was handed to it
\* twice, and two nodes of one type have the same property keys
ConsistentNodeInput ==
    /\ resubmitted = {}
    /\ skipped = {}
    /\ \A n \in submitted :
          /\ n.id # ""
          /\ \A m \in submitted : m.label = n.label => DOMAIN m.props = DOMAIN n.props

\* every node handed to the writer instance is written exactly once, to a
\* partition file of its type, and no duplicate is reported
WrittenOnceEach ==
    /\ \A n \in submitted :
          /\ NodeRows(OwnFiles, n.id) = 1
          /\ NodeRows({f \in OwnFiles : f.name = Pascal(n.label)}, n.id) = 1
    /\ GetDuplicateNodes = <<>>

\* C1 as stated: after write_nodes calls whose nodes have distinct non-empty
\* ids and one property key-set per type, each node has exactly one row in
\* the partition files of its type and get_duplicate_nodes() returns None.
C1_AsStated == (Finished /\ ConsistentNodeInput) => WrittenOnceEach

\* the property keys of every node are those of the schema its type gets: the
\* declared properties plus id and preferred_id (and the strict-mode keys)
\* when the type declares properties, its own keys otherwise
MatchesDeclaredSchema ==
    \A n \in submitted :
        DOMAIN n.props = DOMAIN NodeReferenceProps(n, leaves, strict_mode)

\* C1 (amended): after write_nodes calls whose nodes have distinct non-empty
\* ids, one property key-set per type, and for a type that declares
\* properties exactly the declared keys plus id and preferred_id (plus the
\* strict-mode keys), each node has exactly one row in the partition files
\* of its type written by the instance and no duplicate is reported.
C1_ExactlyOnce ==
    (Finished /\ ConsistentNodeInput /\ MatchesDeclaredSchema) => WrittenOnceEach

\* three nodes of consistent input have been written by calls that are over,
\* over more than one partition file
C1_Witness ==
    /\ pc = "returned"
    /\ ConsistentNodeInput
    /\ MatchesDeclaredSchema
    /\ Cardinality(submitted) = 3
    /\ Cardinality(OwnFiles) >= 2
    /\ WrittenOnceEach

\* C2 as stated: a node id submitted twice to one writer instance, within one
\* input or in two write_nodes calls, has exactly one row in the partition
\* files and is in the duplicate node id set.
C2_OneRowPerRepeatedId ==
    Finished =>
        \A _id \in resubmitted \ {""} :
            /\ NodeRows(OwnFiles, _id) = 1
            /\ GetDuplicateNodes # <<>>
            /\ _id \in GetDuplicateNodes[2]

\* the edge the edge loop takes next is valid (it has a source and a target)
NextEdgeValid == pc = "edge_data" /\ edg # <<>> /\ Head(edg).source # ""
                    /\ Head(edg).target # ""

\* C3: an edge is a duplicate exactly when its <source_id>_<target_id> key was
\* already seen under its own type label.  A pass of the edge loop over an
\* edge whose key is recorded for its label leaves files and bins alone and
\* records the key and the label as duplicate; a pass over an edge whose key
\* is not recorded for its label, whatever other labels hold it, records no
\* duplicate, marks the key for the label and takes the edge for writing: it
\* is last in its bin, or last in a new partition file of its type, or the
\* flush it set off was rejected and the call has failed.
C3_EdgeDuplicatePerLabel ==
    [][NextEdgeValid =>
        LET e     == Head(edg)
            label == e.label
            key   == e.source \o "_" \o e.target
        IN  IF label \in DOMAIN seen_edges /\ key \in seen_edges[label]
            THEN /\ key \in duplicate_edge_ids'
                 /\ label \in duplicate_edge_types'
                 /\ files' = files
                 /\ bins' = bins
                 /\ seen_edges' = seen_edges
            ELSE /\ duplicate_edge_ids' = duplicate_edge_ids
                 /\ duplicate_edge_types' = duplicate_edge_types
                 /\ key \in seen_edges'[label]
                 /\ \/ /\ Has(bins', label)
                       /\ bins'.val[label] # <<>>
                       /\ bins'.val[label][Len(bins'.val[label])] = e
                    \/ \E f \in files' \ files :
                          /\ f.name = Pascal(label)
                          /\ f.lines[Len(f.lines)].source = e.source
                          /\ f.lines[Len(f.lines)].target = e.target
                    \/ pc' = "returned" /\ result' = "false"
    ]_vars

\* one key is recorded under both labels, and a second edge of one of the
\* labels with that key was recorded as duplicate of that label only
C3_Witness ==
    /\ "binds" \in DOMAIN seen_edges
    /\ "activates" \in DOMAIN seen_edges
    /\ "n1_n2" \in seen_edges["binds"] \cap seen_edges["activates"]
    /\ GetDuplicateEdges = <<{"binds"}, {"n1_n2"}>>

\* two entities of one type with different property keys were put into bins
\* by the call
MixedKeys ==
    \E i, j \in DOMAIN accepted :
        accepted[i].label = accepted[j].label /\ accepted[i].keys # accepted[j].keys

\* the key of a row: the node id, or <source_id>_<target_id> of an edge
RowKey(line) == IF "id" \in DOMAIN line THEN line.id
                ELSE line.source \o "_" \o line.target

\* the bin of label holds an entity whose property keys are not the keys of
\* the schema of the bin
BinMismatch(label) ==
    \E i \in DOMAIN bins.val[label] :
        DOMAIN bins.val[label][i].props # DOMAIN reference_props[label]

\* C4: (a) a call that put two entities of one type with different property
\* key-sets into bins returns False; (b) every row of a partition file
\* created by the call is the row of an accepted entity whose property keys are
\* the keys of the row, and a step never creates a partition file of a type
\* whose bin holds a mismatching entity; (c) no partition file that exists is
\* ever removed or changed.
C4_MismatchFailsCall ==
    /\ [](pc = "returned" /\ MixedKeys => result = "false")
    /\ [](\A x \in Rows(created) :
            \E i \in DOMAIN accepted :
                /\ accepted[i].id = RowKey(x[1].lines[x[2]])
                /\ Pascal(accepted[i].label) = x[1].name
                /\ accepted[i].keys = DOMAIN x[1].lines[x[2]].fields)
    /\ [][/\ \A f \in files : f \in files'
          /\ Running => \A label \in DOMAIN bins.val :
                BinMismatch(label) =>
                    ~\E f \in files' \ files : f.name = Pascal(label)
       ]_vars

\* a call wrote a partition file, then met an entity with other property keys
\* and returned False
C4_Witness ==
    /\ pc = "returned"
    /\ MixedKeys
    /\ result = "false"
    /\ created # {}

\* the step is a pass of a data loop over an entity, not the depletion of
\* the input
LoopPass ==
    IF op = "write_nodes" THEN taken' = taken + 1
    ELSE (pc = "node_data" /\ nod # <<>>) \/ (pc = "edge_data" /\ edg # <<>>)

\* the bin of label holds, after its first entity, an entity whose property
\* keys are not the keys of the schema of the bin
LateMismatch(label) ==
    \E i \in DOMAIN bins.val[label] :
        i > 1 /\ DOMAIN bins.val[label][i].props # DOMAIN reference_props[label]

\* C5 as stated: once a non-first entity of a type whose property keys differ
\* from the schema of the type has been taken from the input, the call
\* aborts: the only step from there is the return of False, which takes no
\* entity, marks nothing as seen and writes nothing.
C5_AbortOnArrival ==
    [][(Running /\ \E label \in DOMAIN bins.val : LateMismatch(label)) =>
          /\ pc' = "returned"
          /\ result' = "false"
          /\ taken' = taken
          /\ seen_node_ids' = seen_node_ids
          /\ seen_edges' = seen_edges
          /\ files' = files
    ]_vars

\* C5 (amended): the property keys of an entity are compared with the schema
\* of its type when its bin is flushed, not when it arrives.  While a bin holds
\* a mismatching entity no partition file of its type is created and the call
\* can only end by returning False; a flush rejected inside the loop writes
\* no file, and in the node loop marks no id as seen.
C5_AbortOnFlush ==
    [][/\ (Running /\ \E label \in DOMAIN bins.val : BinMismatch(label)) =>
             /\ \A label \in DOMAIN bins.val :
                   BinMismatch(label) =>
                       ~\E f \in files' \ files : f.name = Pascal(label)
             /\ pc' \in {pc, "returned"}
             /\ pc' = "returned" => result' = "false"
       /\ (Running /\ LoopPass /\ pc' = "returned") =>
             /\ result' = "false"
             /\ files' = files
             /\ pc = "node_data" => seen_node_ids' = seen_node_ids
    ]_vars

\* the second entity put into a bin has other property keys than the first
\* entity of its type; a third entity was taken after it and marked as seen
\* before the call returned False
C5_Witness ==
    /\ pc = "returned"
    /\ result = "false"
    /\ Len(accepted) = 3
    /\ accepted[1].label = accepted[2].label
    /\ accepted[1].keys # accepted[2].keys
    /\ accepted[3].id \in seen_node_ids

\* C6 as stated: the schema recorded for a type label on a writer instance
\* never changes while the instance lives, whatever calls follow.
C6_SchemaImmutable ==
    [][op' # "none" =>
          /\ \A l \in DOMAIN node_property_dict.val :
                /\ l \in DOMAIN node_property_dict'.val
                /\ node_property_dict'.val[l] = node_property_dict.val[l]
          /\ \A l \in DOMAIN edge_property_dict.val :
                /\ l \in DOMAIN edge_property_dict'.val
                /\ edge_property_dict'.val[l] = edge_property_dict.val[l]
    ]_vars

\* the header files written by the writer instance in use: those of the edge
\* types it lists in its import call
OwnHeaders ==
    {h \in headers : \E i \in DOMAIN import_call_edges :
                        import_call_edges[i][1] = h.name \o "-" \o h.ext}

\* C7 as stated: every row a writer instance wrote to the partition files of
\* a type has exactly the property keys of the schema from which the header
\* file of the type was generated.
C7_RowsMatchHeader ==
    \A h \in OwnHeaders :
        \A x \in Rows({f \in OwnFiles : f.name = h.name}) :
            DOMAIN x[1].lines[x[2]].fields = DOMAIN h.text

\* the entities of type label put into bins by the call
AcceptedOf(label) == {i \in DOMAIN accepted : accepted[i].label = label}

\* the partition files of type label created by the call
CreatedOf(label) == {f \in created : f.name = Pascal(label)}

\* the batch size under which the entities of type label were binned
BatchOf(label) == IF op = "write_edges" /\ label \in NodeLabels
                  THEN DefaultBatchSize ELSE batch_size

\* C8 as stated: a call that accepted n entities of one type with batch size
\* b created exactly ceil(n/b) partition files for the type, each of b rows
\* except the last, which has the remaining rows; none has more than b rows.
C8_PartitionSizes ==
    (pc = "returned" /\ result \in {"true", "raised"}) =>
        \A label \in NodeLabels \cup EdgeLabels :
            LET n  == Cardinality(AcceptedOf(label))
                b  == BatchOf(label)
                fs == CreatedOf(label)
            IN  /\ Cardinality(fs) = (n + b - 1) \div b
                /\ \A f \in fs :
                      /\ Len(f.lines) <= b
                      /\ (\E g \in fs : g.part > f.part) => Len(f.lines) = b

\* the number of entities held in the bins of the labels keys
RECURSIVE BinTotal(_, _)
BinTotal(keys, b) ==
    IF keys = <<>> THEN 0 ELSE Len(b.val[Head(keys)]) + BinTotal(Tail(keys), b)

\* the entities taken from the input of the call that are neither written to
\* a partition file nor skipped: those in the bins and those unwrapped from
\* the input and still to be passed to a data loop
HeldBack == BinTotal(bins.keys, bins) + Len(nod) + Len(edg)

\* the distinct types seen so far in the call
TypesSeen ==
    DOMAIN bins.val \cup {accepted[i].label : i \in DOMAIN accepted}

Parts(fs, name) == {f.part : f \in {g \in fs : g.name = name}}

\* C10: in a directory written by any number of successive writer instances,
\* the partition indices present for a type are exactly 0..k-1, no two files
\* of a type share an index, and a flush for the type creates index k.
C10_GaplessNumbering ==
    /\ [](\A f \in files :
            /\ Parts(files, f.name) = 0 .. (Cardinality(Parts(files, f.name)) - 1)
            /\ \A g \in files : (g.name = f.name /\ g.part = f.part) => g = f)
    /\ [][\A f \in files' \ files :
             f.part = Cardinality(Parts(files, f.name))
       ]_vars

\* a writer instance created on a directory that held partition files of a
\* type has written the next partition file of that type
C10_Witness ==
    \E f \in files0, g \in OwnFiles :
        /\ f.name = g.name
        /\ g.part = Cardinality(Parts(files0, f.name))
        /\ g.part >= 1

\* C11: a flush never overwrites or modifies a partition file: every
\* partition file of the directory, with its content, is still there after
\* every step, and so are the files an earlier writer instance left.
C11_AppendOnlyByNewFile ==
    /\ [][\A f \in files : f \in files']_vars
    /\ [](files0 \subseteq files)

\* the writer instance in use has flushed other rows for a type of which an
\* earlier instance left a partition file, and that file is still there
C11_Witness ==
    \E f \in files0 :
        /\ f \in files
        /\ \E g \in OwnFiles : g.name = f.name /\ g.lines # f.lines

\* the indices of the partition files of a type that were written to the end
FullyWritten(fs, name) ==
    {f.part : f \in {g \in fs : g.name = name
                                /\ [name |-> name, part |-> g.part] \notin incomplete}}

\* C12: a crash during a flush leaves at most one partition file incomplete,
\* and a partition file written afterwards gets the index that follows the
\* highest fully written partition file of its type (0 when there is none).
C12_CrashRecovery ==
    /\ [][Cardinality(incomplete' \ incomplete) <= 1]_vars
    /\ [][\A g \in files' \ files :
             [name |-> g.name, part |-> g.part] \notin incomplete'
                 => g.part = IF FullyWritten(files, g.name) = {} THEN 0
                             ELSE SetMax(FullyWritten(files, g.name)) + 1]_vars

\* C13: no partition file is empty, and the flush of a bin that holds no
\* entity (the remainder pass over a bin the loop has just written) creates
\* no file of its type, so the next index of the type stays what it was.
C13_NoEmptyPartition ==
    /\ [](\A f \in files : Len(f.lines) >= 1)
    /\ [][(Running /\ ~LoopPass)
            => \A label \in Range(bins.keys) :
                  bins.val[label] = <<>>
                      => /\ Parts(files', Pascal(label)) = Parts(files, Pascal(label))
                         /\ \A f \in created' \ created : f.name # Pascal(label)
       ]_vars

\* a write_edges call with batch_size 2 has taken two edges of one type: the
\* loop wrote the bin when it was full, the remainder pass found it empty,
\* and the call has returned with one partition file created
C13_Witness ==
    /\ pc = "returned"
    /\ op = "write_edges"
    /\ result = "true"
    /\ batch_size = 2
    /\ Len(accepted) = 2
    /\ accepted[1].label = accepted[2].label
    /\ Cardinality(created) = 1

\* the positions of the references of a kind in an import call
RefPositions(call, kind) == {i \in DOMAIN call : call[i].kind = kind}

\* C14: in the import call, as get_import_call returns it and as
\* write_import_call has written it, every node reference comes before
\* every edge reference, whatever the two reference lists hold.
C14_NodesBeforeEdges ==
    \A call \in {import_call_file,
                  ConstructImportCall(import_call_nodes, import_call_edges)} :
        \A i \in RefPositions(call, "nodes"),
           j \in RefPositions(call, "relationships") : i < j

\* the import call written holds the references of two node types and of
\* two edge types
C14_Witness ==
    /\ Cardinality(RefPositions(import_call_file, "nodes")) = 2
    /\ Cardinality(RefPositions(import_call_file, "relationships")) = 2

\* the references of an import call to the header file and the partition
\* glob of the type with file name prefix name
ReferencesTo(call, name) ==
    {i \in DOMAIN call :
        /\ call[i].kind \in {"nodes", "relationships"}
        /\ call[i].parts = name \o "-part.*"
        /\ call[i].header \in {name \o "-create_table.sql", name \o "-header.csv"}}

\* C15: when every write call of the writer instance has returned True, the
\* import call holds exactly one reference to the header file and partition
\* glob of every type of which the instance has written a partition file,
\* also when the header file of the type was already in the directory.
C15_EveryPairReferenced ==
    (pc = "returned" /\ result = "true" /\ all_passed)
        => \A f \in OwnFiles :
              Cardinality(ReferencesTo(
                  ConstructImportCall(import_call_nodes, import_call_edges),
                  f.name)) = 1

\* every type recorded in the property dictionary pd has its header file
AllHeadersWritten(pd, ext) ==
    /\ pd.keys # <<>>
    /\ \A label \in Range(pd.keys) :
          \E h \in headers : h.name = Pascal(label) /\ h.ext = ext

\* C16: header construction never changes a header file that exists; invoked
\* when every recorded type has its header file, it returns True and leaves
\* the header files and the reference lists of the import call as they are,
\* however often it is invoked; and so does the write_edges call that has
\* written its data and ends with it.
C16_HeadersIdempotent ==
    /\ [][\A h \in headers : h \in headers']_vars
    /\ [](\A h, g \in headers : (h.name = g.name /\ h.ext = g.ext) => h = g)
    /\ [](AllHeadersWritten(edge_property_dict, "header.csv")
            => LET r == WriteEdgeHeaders(edge_property_dict, headers,
                                         import_call_edges)
               IN  /\ r = [ret |-> "true", headers |-> headers,
                           import_call_edges |-> import_call_edges]
                   /\ WriteEdgeHeaders(edge_property_dict, r.headers,
                                       r.import_call_edges) = r)
    /\ [][(pc = "edge_data" /\ edg = <<>> /\ pc' = "returned"
             /\ WriteRemainder("edge", bins.keys, bins, reference_props, labels,
                               files).passed
             /\ AllHeadersWritten(edge_property_dict', "header.csv"))
            => /\ result' = "true"
               /\ import_call_edges' = import_call_edges
               /\ ConstructImportCall(import_call_nodes', import_call_edges')
                    = ConstructImportCall(import_call_nodes, import_call_edges)
       ]_vars

\* a writer instance whose calls all returned True has returned from a
\* write_edges call that wrote a partition file of a type of which it had
\* written one in an earlier call: the header of the type was constructed
\* then, and header construction has been invoked again
C16_Witness ==
    /\ pc = "returned"
    /\ op = "write_edges"
    /\ result = "true"
    /\ all_passed
    /\ \E f \in created, g \in OwnFiles \ created : f.name = g.name
    /\ import_call_edges # <<>>

\* C17: when write_nodes has written the nodes it was given to partition
\* files, header construction succeeds, the call returns True, and every
\* type written has its <Name>-create_table.sql with one column per property
\* of the schema recorded for the type.
C17_CreateTableWritten ==
    (pc = "returned" /\ op = "write_nodes" /\ created # {} /\ result # "false")
        => /\ result = "true"
           /\ \A label \in Range(node_property_dict.keys) :
                 \E h \in headers :
                     /\ h.name = Pascal(label)
                     /\ h.ext = "create_table.sql"
                     /\ DOMAIN h.text = DOMAIN node_property_dict.val[label]

\* the property keys of the schema an edge type gets in the call in
\* progress: those of the declaration (with the strict-mode keys), or
\* those of the first edge of the type the call has put into a bin
EdgeSchemaKeys(label) ==
    LET leaf   == EdgeLeaf(label, leaves)
        cprops == IF leaf = "none" THEN NoProperties ELSE leaves[leaf].properties
        first  == CHOOSE i \in DOMAIN accepted :
                      /\ accepted[i].label = label
                      /\ \A j \in 1..(i - 1) : accepted[j].label # label
    IN  IF cprops # NoProperties
        THEN DOMAIN (IF strict_mode THEN StrictProps(cprops) ELSE cprops)
        ELSE accepted[first].keys

\* the call in progress is a write_edges call of plain edges, and every
\* edge it has put into a bin has the property keys of the schema of its type
PlainConsistentEdgeCall ==
    /\ op = "write_edges"
    /\ submitted = {}
    /\ \A i \in DOMAIN accepted :
          /\ accepted[i].label \in EdgeLabels
          /\ accepted[i].keys = EdgeSchemaKeys(accepted[i].label)

\* the loop of _write_edge_data is about to take an edge without source
InvalidEdgeNext == pc = "edge_data" /\ edg # <<>> /\ Head(edg).source = ""

\* C18: the loop pass over an edge without source or target writes no row
\* and leaves the seen and duplicate sets as they are, and a write_edges call
\* that has taken such an edge, its other edges being consistent with their
\* schemas, does not return False.
C18_InvalidEdgeNotFatal ==
    /\ [][InvalidEdgeNext
            => /\ files' = files
               /\ bins' = bins
               /\ seen_edges' = seen_edges
               /\ duplicate_edge_ids' = duplicate_edge_ids
               /\ duplicate_edge_types' = duplicate_edge_types
               /\ pc' = pc
       ]_vars
    /\ []((pc = "returned" /\ had_invalid /\ PlainConsistentEdgeCall)
            => result # "false")

\* the property keys of the schema a node type gets in the call in progress:
\* those of the declaration with id and preferred_id (and the strict-mode
\* keys), or those of the first node of the type the call has put into a bin
NodeSchemaKeys(label) ==
    LET cprops == leaves[label].properties
        first  == CHOOSE i \in DOMAIN accepted :
                      /\ accepted[i].label = label
                      /\ \A j \in 1..(i - 1) : accepted[j].label # label
        d      == MapPut(MapPut(cprops, "id", "str"), "preferred_id", "str")
    IN  IF cprops # NoProperties
        THEN DOMAIN (IF strict_mode THEN StrictProps(d) ELSE d)
        ELSE accepted[first].keys

\* the call in progress is a write_nodes call, and every node it has put
\* into a bin has the property keys of the schema of its type
ConsistentNodeCall ==
    /\ op = "write_nodes"
    /\ \A i \in DOMAIN accepted :
          accepted[i].keys = NodeSchemaKeys(accepted[i].label)

\* C19: the loop pass over a node with an empty id writes no row and leaves
\* the seen and duplicate sets as they are, and a write_nodes call that has
\* taken such a node, its other nodes being consistent with their schemas,
\* does not return False.
C19_InvalidNodeNotFatal ==
    /\ [][(pc = "node_data" /\ ~had_invalid /\ had_invalid')
            => /\ files' = files
               /\ bins' = bins
               /\ seen_node_ids' = seen_node_ids
               /\ duplicate_node_ids' = duplicate_node_ids
               /\ duplicate_node_types' = duplicate_node_types
               /\ pc' = pc
       ]_vars
    /\ []((pc = "returned" /\ had_invalid /\ ConsistentNodeCall)
            => result # "false")

\* C20: a write_nodes or write_edges call that has taken an entity whose
\* key the writer instance had seen, every entity it has taken being either
\* such a duplicate or valid and consistent with the schema of its type,
\* does not return False, whatever calls the instance has returned from.
C20_DuplicateNotFatal ==
    (/\ pc = "returned"
     /\ ~had_invalid
     /\ taken > Len(accepted)
     /\ ConsistentNodeCall \/ PlainConsistentEdgeCall)
        => result # "false"

\* the number of rows of the entity of type label with key id in the
\* partition files of the type written by the writer instance
RowsOf(label, id) ==
    Cardinality({x \in Rows({f \in OwnFiles : f.name = Pascal(label)}) :
                    RowKey(x[1].lines[x[2]]) = id})

\* no two entities the call has taken have the same key: node ids differ,
\* edges of one type differ in source or target
DistinctGiven ==
    IF op = "write_nodes" THEN Cardinality({g.id : g \in given}) = taken
    ELSE Cardinality(given) = taken

\* C21: a write_nodes or write_edges call on a writer instance that has
\* returned from a failed call, its entities all valid, with distinct keys
\* and consistent with the schemas of their types, does not return False and
\* leaves every entity it was given with exactly one row in the partition
\* files of its type.
C21_RetryWorks ==
    (/\ pc = "returned"
     /\ ~all_passed
     /\ ~had_invalid
     /\ given # {}
     /\ DistinctGiven
     /\ ConsistentNodeCall \/ PlainConsistentEdgeCall)
        => /\ result # "false"
           /\ \A g \in given : RowsOf(g.label, g.id) = 1

\* ancestor lists: every order and repetition of up to three type names
AncestorLists == SeqsUpTo({"protein", "entity", "gene"}, 3)

\* the external names of the types of a list
NameSet(list) == {Pascal(list[i]) : i \in DOMAIN list}

\* the names of S in alphabetical order, each once
SortedNames(S) ==
    CHOOSE s \in SeqsUpTo(S, Cardinality(S)) :
        /\ Range(s) = S
        /\ Len(s) = Cardinality(S)
        /\ \A i, j \in DOMAIN s : i < j => NameRank(s[i]) < NameRank(s[j])

\* C22: the label string cached for a node type is the alphabetically
\* sorted, duplicate-free list of the external names of the ancestors the
\* ontology gives, joined by the array delimiter, or the external name of
\* the type when the ontology gives none; every list with the same set of
\* names, in any order and with any repetition, gives the same string.
C22_CanonicalLabel ==
    [][\A label \in DOMAIN labels' \ DOMAIN labels :
          /\ labels'[label] =
                 IF ancestry[label] = <<>> THEN Pascal(label)
                 ELSE Join(SortedNames(NameSet(ancestry[label])), ADelim)
          /\ \A t \in AncestorLists :
                 NameSet(t) = NameSet(ancestry[label])
                     => AllLabels(label, t) = labels'[label]
      ]_vars

\* the label string of gene was computed after the ontology had come to
\* answer protein, entity, protein for it
C22_Witness ==
    /\ "gene" \in DOMAIN labels
    /\ labels["gene"] = "Entity|Protein"

\* C23: the label string of a node type is computed once per writer
\* instance: all rows of the type written by the instance carry the same
\* label string, whatever the ontology comes to answer in the meantime.
C23_LabelCachedPerInstance ==
    \A f, g \in {h \in OwnFiles : h.name \in NodeFileNames} :
        f.name = g.name
            => \A i \in DOMAIN f.lines, j \in DOMAIN g.lines :
                  f.lines[i].labels = g.lines[j].labels

\* the schema the ontology declares for a type (no property when it
\* declares none): for a node type that of its leaf, for an edge type that
\* of its leaf or of the leaf it is the label_as_edge of
Declared(label) ==
    IF label \in NodeLabels THEN leaves[label].properties
    ELSE IF EdgeLeaf(label, leaves) = "none" THEN NoProperties
    ELSE leaves[EdgeLeaf(label, leaves)].properties

\* each property key of an entity with the type name of its value
TypeTags(props) ==
    [k \in DOMAIN props |->
        CASE props[k] = "none" -> "none"
          [] props[k] = "7"    -> "int"
          [] OTHER             -> "str"]

\* a schema with the keys ks added as strings
WithStrings(d, ks) ==
    [k \in DOMAIN d \cup ks |-> IF k \in ks THEN "str" ELSE d[k]]

\* the types whose schema the step establishes
Established == DOMAIN reference_props' \ DOMAIN reference_props

\* the data loop in progress ends with success
DataPassed == Running /\ pc' # pc /\ ~(pc' = "returned" /\ result' = "false")

\* the schemas of the call are recorded for header construction
Recorded ==
    \A label \in DOMAIN reference_props :
        IF pc = "node_data"
        THEN /\ Has(node_property_dict', label)
             /\ node_property_dict'.val[label] = reference_props[label]
        ELSE /\ Has(edge_property_dict', label)
             /\ edge_property_dict'.val[label] = reference_props[label]

\* C24 as stated: the schema established for a type is the declared schema
\* when the ontology declares one, and otherwise the property keys of the
\* first accepted entity of the type with the type names of their values;
\* when the data loop succeeds this schema is recorded.
C24_AsStated ==
    /\ [][\A label \in Established :
             reference_props'[label] =
                 IF Declared(label) # NoProperties THEN Declared(label)
                 ELSE TypeTags(bins'.val[label][1].props)]_vars
    /\ [][DataPassed => Recorded]_vars

\* C24 (amended): the declared schema is established with id and
\* preferred_id added as strings for a node type, and with source, version
\* and licence added as strings in strict mode; a type without declared
\* schema gets the keys of its first accepted entity with the type names of
\* their values, in strict mode too; when the data loop succeeds this
\* schema is recorded.
C24_EstablishedSchema ==
    /\ [][\A label \in Established :
             reference_props'[label] =
                 IF Declared(label) # NoProperties
                 THEN WithStrings(
                          WithStrings(Declared(label),
                              IF label \in NodeLabels
                              THEN {"id", "preferred_id"} ELSE {}),
                          IF strict_mode
                          THEN {"source", "version", "licence"} ELSE {})
                 ELSE TypeTags(bins'.val[label][1].props)]_vars
    /\ [][DataPassed => Recorded]_vars

\* a call has recorded the schema of gene, which the ontology declares, and
\* the schema of protein, inferred from a node with a number among its values
C24_Witness ==
    /\ Has(node_property_dict, "gene")
    /\ Has(node_property_dict, "protein")
    /\ \E k \in DOMAIN node_property_dict.val["protein"] :
          node_property_dict.val["protein"][k] = "int"

StrictKeys == {"source", "version", "licence"}

\* C25: with strict mode enabled, the schema established for a type holds
\* source, version and licence, and apart from these three exactly the
\* declared properties (with id and preferred_id for a node type) or, when
\* none is declared, the property keys of the first accepted entity.
C25_StrictSchema ==
    [][strict_mode
        => \A label \in Established :
              /\ StrictKeys \subseteq DOMAIN reference_props'[label]
              /\ DOMAIN reference_props'[label] \ StrictKeys =
                    IF Declared(label) # NoProperties
                    THEN (DOMAIN Declared(label) \ StrictKeys)
                             \cup (IF label \in NodeLabels
                                   THEN {"id", "preferred_id"} ELSE {})
                    ELSE DOMAIN bins'.val[label][1].props
      ]_vars

\* a step of the instance at hand: every step but the construction of a new
\* writer
SameInstance == ~(op # "none" /\ op' = "none")

\* C26: no operation on a writer instance removes an element from the seen
\* node ids, from the seen edge keys of a type, or from the duplicate id and
\* duplicate type sets of nodes and edges.
C26_SeenSetsGrow ==
    [][SameInstance
        => /\ seen_node_ids \subseteq seen_node_ids'
           /\ duplicate_node_ids \subseteq duplicate_node_ids'
           /\ duplicate_node_types \subseteq duplicate_node_types'
           /\ duplicate_edge_ids \subseteq duplicate_edge_ids'
           /\ duplicate_edge_types \subseteq duplicate_edge_types'
           /\ \A k \in DOMAIN seen_edges :
                 /\ k \in DOMAIN seen_edges'
                 /\ seen_edges[k] \subseteq seen_edges'[k]
      ]_vars

\* after a failed call and at least one more call, the instance holds seen
\* a seen node id, a duplicate node and seen edge keys
C26_Witness ==
    /\ pc = "idle"
    /\ ~all_passed
    /\ seen_node_ids # {}
    /\ duplicate_node_ids # {}
    /\ \E k \in DOMAIN seen_edges : seen_edges[k] # {}

\* the duplicates of one kind that the instance has skipped
Skipped(kind) == {s \in skipped : s.kind = kind}

\* the report due for the duplicates of one kind
DuplicateReport(kind) ==
    IF Skipped(kind) = {} THEN <<>>
    ELSE <<{s.label : s \in Skipped(kind)}, {s.key : s \in Skipped(kind)}>>

C29_DecomposedOnce ==
    [][/\ (pc = "idle" /\ op' = "write_edges" /\ pc' # "returned")
            => /\ Len(nod') <= taken'
               /\ Len(edg') = 2 * Len(nod') + (taken' - Len(nod'))
       /\ (/\ pc = "node_data" /\ op = "write_edges" /\ nod = <<>>
           /\ WriteRemainder("node", bins.keys, bins, reference_props,
                             labels, files).passed)
            => /\ pc' = "edge_data"
               /\ edg' = edg
      ]_vars

\* the row keys read from the partition files fs of one type, the files
\* taken in increasing index order
RECURSIVE ReadInOrder(_)
ReadInOrder(fs) ==
    IF fs = {} THEN <<>>
    ELSE LET f == CHOOSE g \in fs : \A h \in fs : g.part <= h.part
         IN  [i \in DOMAIN f.lines |-> RowKey(f.lines[i])]
                 \o ReadInOrder(fs \ {f})

\* the keys of the entities of type label put into bins by the call, in the
\* order of the input
AcceptedKeys(label) ==
    LET of_label == SelectSeq(accepted, LAMBDA a : a.label = label)
    IN  [i \in DOMAIN of_label |-> of_label[i].id]

IsPrefix(s, t) == Len(s) <= Len(t) /\ \A i \in DOMAIN s : s[i] = t[i]

\* C30: for each type, the partition files a call has created, read in
\* increasing index order, hold the rows of the entities the call accepted
\* for the type in the order it accepted them (those still in bins to come),
\* and a partition file gets an index above every index its type has in the
\* directory, so the files of a later flush or call are read later.
C30_WriteOrderPerLabel ==
    /\ [](\A label \in NodeLabels \cup EdgeLabels :
             IsPrefix(ReadInOrder(CreatedOf(label)), AcceptedKeys(label)))
    /\ [][\A f \in files' \ files : \A g \in files :
             g.name = f.name => g.part < f.part]_vars

\* a later call of the instance has written two rows of a type that an
\* earlier call wrote a partition file of
C30_Witness ==
    /\ pc = "returned"
    /\ \E f \in created :
          /\ Len(f.lines) = 2
          /\ RowKey(f.lines[1]) # RowKey(f.lines[2])
          /\ \E g \in OwnFiles \ created : g.name = f.name /\ g.part < f.part

\* C31: _get_data_type returns for every tag of DATA_TYPE_LOOKUP the column
\* type of the table, and for every other tag, None included, VARCHAR; it
\* raises for none.
C31_LookupTotal ==
    \A i \in DOMAIN columns :
        LET tag == columns[i][1]
            typ == columns[i][2]
        IN  /\ typ \in {"VARCHAR", "INTEGER", "BIGINT", "NUMERIC", "BOOLEAN",
                         "TEXT[]"}
            /\ tag = "str" => typ = "VARCHAR"
            /\ tag = "int" => typ = "INTEGER"
            /\ tag = "long" => typ = "BIGINT"
            /\ tag \in {"float", "double", "dbl"} => typ = "NUMERIC"
            /\ tag = "boolean" => typ = "BOOLEAN"
            /\ tag \in {"str[]", "string[]"} => typ = "TEXT[]"
            /\ tag \notin {"str", "int", "long", "float", "double", "dbl",
                            "boolean", "str[]", "string[]"} => typ = "VARCHAR"

\* a known tag and None have been looked up
C31_Witness ==
    /\ col_types = <<>>
    /\ columns = <<<<"long", "BIGINT">>, <<"none", "VARCHAR">>>>

\* the embedded nodes the call accepted
AcceptedNodes == {i \in DOMAIN accepted : accepted[i].label \in NodeLabels}

\* C32: in a write_edges call with BioCypherRelAsNode entities in its input,
\* (a) a step writes an edge row only after every embedded node is taken,
\* every accepted one has its row and the node header of its type is built;
\* (b) when the embedded nodes are written, the node headers are built and
\* the call goes on to the edges; (c) a call that ends in writing the
\* embedded nodes has written no edge row and returns False.
C32_EmbeddedNodesFirst ==
    [][/\ (op = "write_edges"
            /\ \E f \in files' \ files : f.name \notin NodeFileNames)
            => /\ pc = "edge_data"
               /\ nod = <<>>
               /\ \A i \in AcceptedNodes :
                     /\ \E x \in Rows(CreatedOf(accepted[i].label)) :
                           RowKey(x[1].lines[x[2]]) = accepted[i].id
                     /\ HeaderExists(headers, Pascal(accepted[i].label),
                                     "create_table.sql")
       /\ (/\ op = "write_edges" /\ pc = "node_data" /\ nod = <<>>
           /\ WriteRemainder("node", bins.keys, bins, reference_props,
                             labels, files).passed
           /\ bins.keys # <<>>)
            => /\ \A label \in Range(bins.keys) :
                     HeaderExists(headers', Pascal(label), "create_table.sql")
               /\ pc' = "edge_data"
       /\ (op = "write_edges" /\ pc = "node_data" /\ pc' = "returned")
            => /\ result' = "false"
               /\ \A f \in created' : f.name \in NodeFileNames
      ]_vars

\* the edges of type label the instance has taken as new: those in the bin of
\* the call and those in its partition files
SeenPairs(label) ==
    {<<x[1].lines[x[2]].source, x[1].lines[x[2]].target>> :
        x \in Rows({f \in OwnFiles : f.name = Pascal(label)})}
    \cup (IF Has(bins, label)
          THEN {<<bins.val[label][i].source, bins.val[label][i].target>> :
                   i \in DOMAIN bins.val[label]}
          ELSE {})

\* C33: an edge is skipped as a duplicate only if the instance has taken an
\* edge of its type with the same source id and the same target id before.
C33_DuplicateOnlyIfSamePair ==
    [][(/\ pc = "edge_data" /\ edg # <<>>
        /\ Head(edg).source # "" /\ Head(edg).target # ""
        /\ edg' = Tail(edg)
        /\ Len(accepted') = Len(accepted))
         => <<Head(edg).source, Head(edg).target>> \in SeenPairs(Head(edg).label)
      ]_vars

\* the header state of the instance: the recorded schemas, the header files
\* and the references of the import call
HeaderState ==
    <<node_property_dict, edge_property_dict, headers, import_call_nodes,
      import_call_edges>>

\* C34: a write_nodes or write_edges call that returns False leaves the
\* recorded schemas, the header files and the import-call references as
\* they were before the call: a step of a call changes any of them only as
\* it ends the call with another result than False.
C34_FailedWriteKeepsHeaders ==
    [][(pc \in {"node_data", "edge_data"} /\ HeaderState' # HeaderState)
          => (pc' = "returned" /\ result' # "false")]_vars

\* a call that accepted edges has returned False on an instance that holds
\* recorded schemas, header files and references from an earlier call
C34_Witness ==
    /\ pc = "returned"
    /\ result = "false"
    /\ accepted # <<>>
    /\ edge_property_dict.keys # <<>>
    /\ headers # {}
    /\ import_call_edges # <<>>

\* C35: no write_nodes or write_edges call changes the declared property
\* schema the ontology holds for a type: it is what it was when the writer
\* was constructed.
C35_OntologyConsumedOnly ==
    \A l \in DOMAIN InitialLeaves :
        leaves[l].properties = InitialLeaves[l].properties

\* C36: every duplicate node id is a seen node id, every duplicate edge key
\* is a seen key of some edge type, and for nodes and for edges the set of
\* duplicate types is empty exactly when the set of duplicate ids is.
C36_DuplicatesWereSeen ==
    /\ duplicate_node_ids \subseteq seen_node_ids
    /\ \A key \in duplicate_edge_ids :
          \E k \in DOMAIN seen_edges : key \in seen_edges[k]
    /\ (duplicate_node_types = {}) <=> (duplicate_node_ids = {})
    /\ (duplicate_edge_types = {}) <=> (duplicate_edge_ids = {})

\* an instance with a duplicate edge and seen node ids, none of them twice
C36_Witness ==
    /\ duplicate_edge_ids # {}
    /\ duplicate_edge_types # {}
    /\ seen_node_ids # {}
    /\ duplicate_node_ids = {}

\* the number of fields of an edge row and of an edge header: source id (or
\* :START_ID), one field per property, target id (:END_ID), type (:TYPE)
RowFieldCount(line) == 1 + Cardinality(DOMAIN line.fields) + 2
HeaderFieldCount(h) == 1 + Cardinality(DOMAIN h.text) + 2

\* C37: an edge row has as many fields as the edge header of its type has
\* columns, and between the source id and the target id it holds the value
\* of exactly the properties the header lists there; with an empty schema
\* the row and the header have three fields each.
C37_RowAlignedWithHeader ==
    \A h \in OwnHeaders :
        \A f \in {g \in OwnFiles : g.name = h.name} :
            \A i \in DOMAIN f.lines :
                /\ RowFieldCount(f.lines[i]) = HeaderFieldCount(h)
                /\ \A k \in DOMAIN h.text : k \in DOMAIN f.lines[i].fields
                /\ DOMAIN h.text = {} => RowFieldCount(f.lines[i]) = 3

\* C38: when two writer instances flush one type into one directory and
\* their steps interleave, every batch either of them has written is on
\* disk in a partition file of its own.
C38_NoOverwrite ==
    \A w \in Writers : \A b \in 1..flushed[w] :
        \E f \in files : f.lines = BatchLines(w, b)

\* C39: write_edges called with an empty input returns False and adds no
\* partition file, header file, import-call reference, seen key or recorded
\* schema, whatever the instance holds.
C39_EmptyEdgeInput ==
    [][(pc = "idle" /\ pc' # "idle" /\ op' = "write_edges" /\ taken' = 0)
          => /\ pc' = "returned"
             /\ result' = "false"
             /\ files' = files
             /\ headers' = headers
             /\ import_call_nodes' = import_call_nodes
             /\ import_call_edges' = import_call_edges
             /\ seen_edges' = seen_edges
             /\ seen_node_ids' = seen_node_ids
             /\ node_property_dict' = node_property_dict
             /\ edge_property_dict' = edge_property_dict
      ]_vars

\* a call with an empty input has returned on an instance that holds seen
\* keys, a recorded schema, a header file and a reference
C39_Witness ==
    /\ pc = "returned"
    /\ op = "write_edges"
    /\ taken = 0
    /\ result = "false"
    /\ \E k \in DOMAIN seen_edges : seen_edges[k] # {}
    /\ edge_property_dict.keys # <<>>
    /\ headers # {}
    /\ import_call_edges # <<>>
    /\ OwnFiles # {}

====
